---- MODULE Spec2Model ----
(***************************************************************************)
(* Library backend (backend/src/main.rs): the lending transactions         *)
(* create_loan and return_loan running as concurrent request handlers      *)
(* against one MySQL store, each inside one sqlx transaction.              *)
(*                                                                         *)
(* The store is InnoDB at its default isolation level: a plain SELECT is   *)
(* a non-locking read of the last committed row version, an UPDATE takes   *)
(* an exclusive row lock held until commit or rollback and works on the    *)
(* latest committed value, the AUTO_INCREMENT counter is not rolled back.  *)
(* Columns are signed 32-bit integers (book.rs, loan.rs) with no CHECK.    *)
(* The text columns of a book and loans.borrowed_at (assigned by the       *)
(* store, never bound by the handlers) take no part in lending and are     *)
(* not carried.  No schema is part of the sources: no foreign key ties a   *)
(* loan to its book or member.                                             *)
(*                                                                         *)
(* Spec covers create_book, create_loan and return_loan on MaxLent books,  *)
(* with store failures and the clock; delete_book is not one of its        *)
(* actions, so a book, once created, stays.  SpecSearch is the search      *)
(* handler alone, the snapshot it loads an input.  SpecDesk is every       *)
(* handler of the server, delete_book included, on MaxBooks books.         *)
(***************************************************************************)
EXTENDS Integers, Sequences, FiniteSets, TLC

\* ------------------------------------------------------------- bounds
NumProcs == 2      \* request handlers that can be in flight together
MaxReqs == 3       \* requests served in one run (also the loan ids in use)
MaxBooks == 2      \* books the catalogue can hold
MaxLent == 1       \* books created in a run of the lending specification
MaxTotal == 2      \* largest total_copies a created book is given
MaxClock == 2      \* ticks the wall clock advances
TicksPerDay == 2   \* clock ticks in one calendar day
MaxFails == 1      \* persistence failures injected in one run
MaxSnap == 4       \* rows in the snapshot a search loads
MaxCores == 3      \* cores num_cpus::get() reports, at most
MaxMembers == 1    \* members the members table is given

Procs == 1..NumProcs
BookIds == 1..MaxBooks
LoanIds == 1..MaxReqs
MemberIds == {1}

\* ------------------------------------------------------------- dates
Digits == {"0", "1", "2", "3", "4", "5", "6", "7", "8", "9"}

DigitVal(c) ==
    CASE c = "0" -> 0 [] c = "1" -> 1 [] c = "2" -> 2 [] c = "3" -> 3
      [] c = "4" -> 4 [] c = "5" -> 5 [] c = "6" -> 6 [] c = "7" -> 7
      [] c = "8" -> 8 [] c = "9" -> 9

\* chrono's scan::number(s, 1, max): how many digits are taken from s[i..].
RECURSIVE CountDigits(_, _, _)
CountDigits(s, i, max) ==
    IF max = 0 \/ i > Len(s) \/ s[i] \notin Digits
    THEN 0
    ELSE 1 + CountDigits(s, i + 1, max - 1)

RECURSIVE NumVal(_, _, _)
NumVal(s, i, k) ==
    IF k = 0 THEN 0 ELSE NumVal(s, i, k - 1) * 10 + DigitVal(s[i + k - 1])

IsLeap(y) == (y % 4 = 0 /\ y % 100 # 0) \/ y % 400 = 0

DaysInMonth(y, m) ==
    IF m = 2 THEN (IF IsLeap(y) THEN 29 ELSE 28)
    ELSE IF m \in {4, 6, 9, 11} THEN 30 ELSE 31

MinDate == [y |-> -262143, m |-> 1, d |-> 1]

\* NaiveDateTime::MIN
MinDateTime == [date |-> MinDate, tod |-> 0]

ParseErr == [ok |-> FALSE, date |-> MinDate]

\* NaiveDate::parse_from_str(s, "%Y-%m-%d") on an unsigned input: up to four
\* year digits, "-", one or two month digits, "-", one or two day digits,
\* nothing after them, and the three numbers name a calendar day.
ParseDate(s) ==
    LET ky == CountDigits(s, 1, 4)
        im == ky + 2
        km == CountDigits(s, im, 2)
        id == im + km + 1
        kd == CountDigits(s, id, 2)
    IN  IF ky = 0 \/ ky + 1 > Len(s) \/ s[ky + 1] # "-" THEN ParseErr
        ELSE IF km = 0 \/ im + km > Len(s) \/ s[im + km] # "-" THEN ParseErr
        ELSE IF kd = 0 \/ id + kd - 1 # Len(s) THEN ParseErr
        ELSE LET y == NumVal(s, 1, ky)
                 m == NumVal(s, im, km)
                 d == NumVal(s, id, kd)
             IN  IF m \in 1..12 /\ d >= 1 /\ d <= DaysInMonth(y, m)
                 THEN [ok |-> TRUE, date |-> [y |-> y, m |-> m, d |-> d]]
                 ELSE ParseErr

\* NaiveDate's ordering (a < b).
DateLess(a, b) ==
    \/ a.y < b.y
    \/ a.y = b.y /\ a.m < b.m
    \/ a.y = b.y /\ a.m = b.m /\ a.d < b.d

\* The calendar day the run starts on.
EpochDate == [y |-> 2025, m |-> 12, d |-> 31]

NextDay(dt) ==
    IF dt.d < DaysInMonth(dt.y, dt.m) THEN [dt EXCEPT !.d = @ + 1]
    ELSE IF dt.m < 12 THEN [y |-> dt.y, m |-> dt.m + 1, d |-> 1]
    ELSE [y |-> dt.y + 1, m |-> 1, d |-> 1]

RECURSIVE DateOfDay(_)
DateOfDay(n) == IF n = 0 THEN EpochDate ELSE NextDay(DateOfDay(n - 1))

\* The due_date strings requests carry, as character sequences.
DueYesterday == <<"2", "0", "2", "5", "-", "1", "2", "-", "3", "0">>
DueToday == <<"2", "0", "2", "5", "-", "1", "2", "-", "3", "1">>
DueTomorrow == <<"2", "0", "2", "6", "-", "0", "1", "-", "0", "1">>
DueBadMonth == <<"2", "0", "2", "6", "-", "1", "3", "-", "0", "1">>
DueGarbage == <<"s", "o", "o", "n">>
DueInputs == {DueYesterday, DueToday, DueTomorrow, DueBadMonth, DueGarbage}

\* ------------------------------------------------------------- state
VARIABLES
    clock,       \* the wall clock (Utc::now), in ticks
    books,       \* committed rows of table books, by id
    nextBookId,  \* AUTO_INCREMENT of books
    loans,       \* committed rows of table loans, by id
    nextLoanId,  \* AUTO_INCREMENT of loans
    pc,          \* where each request handler stands
    req,         \* the request a handler is serving
    loc,         \* the handler's local variables
    tx,          \* the handler's transaction: its state and uncommitted writes
    resp,        \* the response the handler gave
    ghost,       \* history of the request, for stating properties
    lastStock,   \* history: the last two committed stock changes of each book
    reqs,        \* requests accepted so far
    fails,       \* persistence failures injected so far
    search,      \* the search handler: its snapshot, tasks and results
    members,     \* committed rows of table members, and its AUTO_INCREMENT
    out          \* the last answer of a single-statement handler

vars == <<clock, books, nextBookId, loans, nextLoanId, pc, req, loc, tx, resp,
          ghost, lastStock, reqs, fails, search, members, out>>

\* What the lending handlers never touch.
deskVars == <<search, members, out>>

NoBook == [exists |-> FALSE, total_copies |-> 0, available_copies |-> 0]

NoLoanRow == [exists |-> FALSE, book_id |-> 0, member_id |-> 0,
              due_at |-> MinDateTime, returned_at |-> <<>>]

NoReq == [kind |-> "none", book_id |-> 0, member_id |-> 0, due_date |-> <<>>,
          id |-> 0]

NoLoan == [id |-> 0, book_id |-> 0, member_id |-> 0, due_at |-> MinDateTime,
           returned_at |-> <<>>]

NoLoc == [due_at |-> MinDateTime, available |-> 0, new_id |-> 0, book_id |-> 0,
          now |-> MinDateTime, fetched |-> NoLoan]

NoTx == [state |-> "none", loanIns |-> <<>>, loanUpd |-> <<>>, bookUpd |-> <<>>]

NoResp == [kind |-> "none", loan |-> NoLoan, ok |-> FALSE]

NoGhost == [txBegun |-> FALSE, failedAt |-> "none", startAvail |-> 0,
            raced |-> {}]

NoStock == [op |-> "none", loan |-> 0, before |-> 0,
            prevOp |-> "none", prevLoan |-> 0, prevBefore |-> 0,
            borrows |-> 0, returns |-> 0]

\* The search handler's locals; order is history, the tasks in the order
\* they completed.
NoSearch == [pc |-> "idle", snapshot |-> <<>>, param |-> <<>>,
             mode |-> "Title", query |-> <<>>, num_cores |-> 1,
             chunk_size |-> 0, tasks |-> <<>>, next |-> 1, results |-> <<>>,
             order |-> <<>>]

NoMembers == [rows |-> {}, nextId |-> 1]

NoOut == [op |-> "none", ok |-> FALSE, id |-> 0, rows |-> <<>>]

Init ==
    /\ clock = 0
    /\ books = [b \in BookIds |-> NoBook]
    /\ nextBookId = 1
    /\ loans = [l \in LoanIds |-> NoLoanRow]
    /\ nextLoanId = 1
    /\ pc = [p \in Procs |-> "idle"]
    /\ req = [p \in Procs |-> NoReq]
    /\ loc = [p \in Procs |-> NoLoc]
    /\ tx = [p \in Procs |-> NoTx]
    /\ resp = [p \in Procs |-> NoResp]
    /\ ghost = [p \in Procs |-> NoGhost]
    /\ lastStock = [b \in BookIds |-> NoStock]
    /\ reqs = 0
    /\ fails = 0
    /\ search = NoSearch
    /\ members = NoMembers
    /\ out = NoOut

\* Utc::now().date_naive() and Utc::now().naive_utc()
Today == DateOfDay(clock \div TicksPerDay)
NowDateTime == [date |-> Today, tod |-> clock % TicksPerDay]

\* ------------------------------------------------------------- the store
\* Another transaction holds the exclusive lock of books row b.
BookLockedByOther(b, p) ==
    \E q \in Procs \ {p} :
        /\ tx[q].state = "active"
        /\ \E i \in 1..Len(tx[q].bookUpd) : tx[q].bookUpd[i].id = b

\* Another transaction holds the exclusive lock of loans row l.
LoanLockedByOther(l, p) ==
    \E q \in Procs \ {p} :
        /\ tx[q].state = "active"
        /\ \E i \in 1..Len(tx[q].loanUpd) : tx[q].loanUpd[i].id = l

\* The loans table once transaction t has committed.
LoansAfter(t) ==
    [l \in LoanIds |->
        IF \E i \in 1..Len(t.loanIns) : t.loanIns[i].id = l
        THEN (CHOOSE w \in {t.loanIns[i] : i \in 1..Len(t.loanIns)} : w.id = l).row
        ELSE IF loans[l].exists /\ \E i \in 1..Len(t.loanUpd) : t.loanUpd[i].id = l
        THEN [loans[l] EXCEPT !.returned_at =
                (CHOOSE w \in {t.loanUpd[i] : i \in 1..Len(t.loanUpd)} :
                    w.id = l).returned_at]
        ELSE loans[l]]

\* Mutant of BooksAfter: the stock update has no WHERE clause and reaches
\* every row of the table.
BooksAfterEveryRow(t) ==
    [b \in BookIds |->
        IF books[b].exists /\ Len(t.bookUpd) > 0
        THEN [books[b] EXCEPT !.available_copies = @ + t.bookUpd[1].delta]
        ELSE books[b]]

\* The books table once transaction t has committed.
BooksAfter(t) ==
    [b \in BookIds |->
        IF books[b].exists /\ \E i \in 1..Len(t.bookUpd) : t.bookUpd[i].id = b
        THEN [books[b] EXCEPT !.available_copies = @ +
                (CHOOSE w \in {t.bookUpd[i] : i \in 1..Len(t.bookUpd)} :
                    w.id = b).delta]
        ELSE books[b]]

\* History of committed stock changes, kept per book, with the number of
\* committed transactions that inserted a loan of the book (borrows) and
\* that set returned_at on a loan of the book (returns).
StockAfter(t, op, loan) ==
    [b \in BookIds |->
        LET nb == Cardinality({i \in 1..Len(t.loanIns) :
                                  t.loanIns[i].row.book_id = b})
            nr == Cardinality({i \in 1..Len(t.loanUpd) :
                                  loans[t.loanUpd[i].id].book_id = b})
        IN  IF books[b].exists /\ \E i \in 1..Len(t.bookUpd) : t.bookUpd[i].id = b
            THEN [op |-> op, loan |-> loan, before |-> books[b].available_copies,
                  prevOp |-> lastStock[b].op, prevLoan |-> lastStock[b].loan,
                  prevBefore |-> lastStock[b].before,
                  borrows |-> lastStock[b].borrows + nb,
                  returns |-> lastStock[b].returns + nr]
            ELSE [lastStock[b] EXCEPT !.borrows = @ + nb, !.returns = @ + nr]]

RolledBack == [NoTx EXCEPT !.state = "rolledback"]

\* ------------------------------------------------------------- the clock
Tick ==
    /\ clock < MaxClock
    /\ clock' = clock + 1
    /\ UNCHANGED <<books, nextBookId, loans, nextLoanId, pc, req, loc, tx, resp,
                   ghost, lastStock, reqs, fails>>
    /\ UNCHANGED deskVars

\* ------------------------------------------------------------- create_book
\* INSERT INTO books (.., total_copies, available_copies) VALUES (.., t, t):
\* one autocommitted statement. (On a store error the handler answers a
\* book with id -1 and the store is unchanged: a stuttering step.)
CreateBook(total) ==
    /\ nextBookId <= MaxBooks
    /\ books' = [books EXCEPT ![nextBookId] =
                    [exists |-> TRUE, total_copies |-> total,
                     available_copies |-> total]]
    /\ nextBookId' = nextBookId + 1
    /\ UNCHANGED <<clock, loans, nextLoanId, pc, req, loc, tx, resp, ghost,
                   lastStock, reqs, fails>>
    /\ UNCHANGED deskVars

\* ------------------------------------------------------------- create_loan
\* The response of a rejected borrow.
RejectLoan(r, due) ==
    [id |-> -1, book_id |-> r.book_id, member_id |-> r.member_id,
     due_at |-> due, returned_at |-> <<>>]

\* Mutant of DueDateValid: a due date of today is refused (date <= today).
DueDateValidStrict(parsed, today) == parsed.ok /\ DateLess(today, parsed.date)

\* Step 0: the due date parsed, and not before today.
DueDateValid(parsed, today) == parsed.ok /\ ~DateLess(parsed.date, today)

\* Mutant of Midnight: midnight of the current day, whatever date was sent.
MidnightOfToday(date) == [date |-> Today, tod |-> 0]

\* date.and_hms_opt(0, 0, 0)
Midnight(date) == [date |-> date, tod |-> 0]

\* Mutant of StockExhausted: the test is available < 0.
StockExhaustedBelowZero(available) == available < 0

\* Step 1's test: available <= 0.
StockExhausted(available) == available <= 0

InFlight(q) == pc[q] \notin {"idle", "done"}

\* Handler entry: validation, then pool.begin() (beginOk: it succeeded;
\* a failed begin panics on .expect).
StartCreateLoan(p, b, m, s, beginOk) ==
    LET r == [kind |-> "create_loan", book_id |-> b, member_id |-> m,
              due_date |-> s, id |-> 0]
        parsed == ParseDate(s)
        valid == DueDateValid(parsed, Today)
        others == {q \in Procs \ {p} : InFlight(q)}
        g == [txBegun |-> valid,
              failedAt |-> IF valid /\ ~beginOk THEN "begin" ELSE "none",
              startAvail |-> books[b].available_copies, raced |-> others]
    IN  /\ pc[p] = "idle"
        /\ reqs < MaxReqs
        /\ beginOk \/ (valid /\ fails < MaxFails)
        /\ reqs' = reqs + 1
        /\ req' = [req EXCEPT ![p] = r]
        /\ ghost' = [q \in Procs |->
                        IF q = p THEN g
                        ELSE IF q \in others /\ valid /\ beginOk
                        THEN [ghost[q] EXCEPT !.raced = @ \cup {p}]
                        ELSE ghost[q]]
        /\ IF ~valid
           THEN /\ pc' = [pc EXCEPT ![p] = "done"]
                /\ resp' = [resp EXCEPT ![p] =
                              [kind |-> "loan", loan |-> RejectLoan(r, MinDateTime),
                               ok |-> FALSE]]
                /\ UNCHANGED <<loc, tx, fails>>
           ELSE IF beginOk
           THEN /\ pc' = [pc EXCEPT ![p] = "cl_select"]
                /\ loc' = [loc EXCEPT ![p] =
                              [NoLoc EXCEPT !.due_at = Midnight(parsed.date)]]
                /\ tx' = [tx EXCEPT ![p] = [NoTx EXCEPT !.state = "active"]]
                /\ UNCHANGED <<resp, fails>>
           ELSE /\ pc' = [pc EXCEPT ![p] = "done"]
                /\ resp' = [resp EXCEPT ![p] = [NoResp EXCEPT !.kind = "panic"]]
                /\ fails' = fails + 1
                /\ UNCHANGED <<loc, tx>>
        /\ UNCHANGED <<clock, books, nextBookId, loans, nextLoanId, lastStock>>
        /\ UNCHANGED deskVars

\* The error arm of step 1 and the out-of-stock arm: roll back, answer id -1.
ClReject(p) ==
    /\ pc' = [pc EXCEPT ![p] = "done"]
    /\ tx' = [tx EXCEPT ![p] = RolledBack]
    /\ resp' = [resp EXCEPT ![p] =
                  [kind |-> "loan", loan |-> RejectLoan(req[p], loc[p].due_at),
                   ok |-> FALSE]]

\* Step 1: SELECT available_copies FROM books WHERE id = ? (fetch_one).
ClSelect(p) ==
    LET b == req[p].book_id
    IN  /\ pc[p] = "cl_select"
        /\ IF ~books[b].exists
           THEN ClReject(p) /\ UNCHANGED loc
           ELSE IF StockExhausted(books[b].available_copies)
           THEN /\ ClReject(p)
                /\ loc' = [loc EXCEPT ![p].available = books[b].available_copies]
           ELSE /\ pc' = [pc EXCEPT ![p] = "cl_insert"]
                /\ loc' = [loc EXCEPT ![p].available = books[b].available_copies]
                /\ UNCHANGED <<tx, resp>>
        /\ UNCHANGED <<clock, books, nextBookId, loans, nextLoanId, req, ghost,
                       lastStock, reqs, fails>>
        /\ UNCHANGED deskVars

\* Step 1 fails in the store.
ClSelectFail(p) ==
    /\ pc[p] = "cl_select"
    /\ fails < MaxFails
    /\ fails' = fails + 1
    /\ ClReject(p)
    /\ ghost' = [ghost EXCEPT ![p].failedAt = pc[p]]
    /\ UNCHANGED <<clock, books, nextBookId, loans, nextLoanId, req, loc,
                   lastStock, reqs>>
    /\ UNCHANGED deskVars

\* Step 2: INSERT INTO loans (book_id, member_id, due_at).
ClInsert(p) ==
    LET row == [exists |-> TRUE, book_id |-> req[p].book_id,
                member_id |-> req[p].member_id, due_at |-> loc[p].due_at,
                returned_at |-> <<>>]
    IN  /\ pc[p] = "cl_insert"
        /\ nextLoanId \in LoanIds
        /\ tx' = [tx EXCEPT ![p].loanIns = <<[id |-> nextLoanId, row |-> row]>>]
        /\ loc' = [loc EXCEPT ![p].new_id = nextLoanId]
        /\ nextLoanId' = nextLoanId + 1
        /\ pc' = [pc EXCEPT ![p] = "cl_update"]
        /\ UNCHANGED <<clock, books, nextBookId, loans, req, resp, ghost,
                       lastStock, reqs, fails>>
        /\ UNCHANGED deskVars

\* Mutant of ClUpdate: the stock is written from the value step 1 read
\* (SET available_copies = available - 1).
ClUpdateFromRead(p) ==
    LET b == req[p].book_id
    IN  /\ pc[p] = "cl_update"
        /\ ~BookLockedByOther(b, p)
        /\ tx' = [tx EXCEPT ![p].bookUpd =
                    IF books[b].exists
                    THEN <<[id |-> b, delta |-> loc[p].available - 1
                                                - books[b].available_copies]>>
                    ELSE <<>>]
        /\ pc' = [pc EXCEPT ![p] = "cl_fetch"]
        /\ UNCHANGED <<clock, books, nextBookId, loans, nextLoanId, req, loc,
                       resp, ghost, lastStock, reqs, fails>>
        /\ UNCHANGED deskVars

\* Step 3: UPDATE books SET available_copies = available_copies - 1.
\* Waits while another transaction holds the row.
ClUpdate(p) ==
    LET b == req[p].book_id
    IN  /\ pc[p] = "cl_update"
        /\ ~BookLockedByOther(b, p)
        /\ tx' = [tx EXCEPT ![p].bookUpd =
                    IF books[b].exists THEN <<[id |-> b, delta |-> -1]>> ELSE <<>>]
        /\ pc' = [pc EXCEPT ![p] = "cl_fetch"]
        /\ UNCHANGED <<clock, books, nextBookId, loans, nextLoanId, req, loc,
                       resp, ghost, lastStock, reqs, fails>>
        /\ UNCHANGED deskVars

\* Step 4: SELECT .. FROM loans WHERE id = new_id, inside the transaction.
ClFetch(p) ==
    LET w == tx[p].loanIns[1]
    IN  /\ pc[p] = "cl_fetch"
        /\ loc' = [loc EXCEPT ![p].fetched =
                     [id |-> w.id, book_id |-> w.row.book_id,
                      member_id |-> w.row.member_id, due_at |-> w.row.due_at,
                      returned_at |-> w.row.returned_at]]
        /\ pc' = [pc EXCEPT ![p] = "cl_commit"]
        /\ UNCHANGED <<clock, books, nextBookId, loans, nextLoanId, req, tx,
                       resp, ghost, lastStock, reqs, fails>>
        /\ UNCHANGED deskVars

\* Steps 2, 3 or 4 fail in the store: .expect panics, the dropped
\* transaction rolls back, the caller gets no Loan.
ClPanic(p) ==
    /\ pc[p] \in {"cl_insert", "cl_update", "cl_fetch"}
    /\ fails < MaxFails
    /\ fails' = fails + 1
    /\ pc' = [pc EXCEPT ![p] = "done"]
    /\ tx' = [tx EXCEPT ![p] = RolledBack]
    /\ resp' = [resp EXCEPT ![p] = [NoResp EXCEPT !.kind = "panic"]]
    /\ ghost' = [ghost EXCEPT ![p].failedAt = pc[p]]
    /\ UNCHANGED <<clock, books, nextBookId, loans, nextLoanId, req, loc,
                   lastStock, reqs>>
    /\ UNCHANGED deskVars

\* tx.commit().await.ok(); Json(fetched)
ClCommit(p) ==
    /\ pc[p] = "cl_commit"
    /\ loans' = LoansAfter(tx[p])
    /\ books' = BooksAfter(tx[p])
    /\ lastStock' = StockAfter(tx[p], "borrow", loc[p].new_id)
    /\ tx' = [tx EXCEPT ![p].state = "committed"]
    /\ pc' = [pc EXCEPT ![p] = "done"]
    /\ resp' = [resp EXCEPT ![p] =
                  [kind |-> "loan", loan |-> loc[p].fetched, ok |-> FALSE]]
    /\ UNCHANGED <<clock, nextBookId, nextLoanId, req, loc, ghost, reqs, fails>>
    /\ UNCHANGED deskVars

\* The commit fails in the store: nothing is persisted, .ok() drops the error.
ClCommitFail(p) ==
    /\ pc[p] = "cl_commit"
    /\ fails < MaxFails
    /\ fails' = fails + 1
    /\ tx' = [tx EXCEPT ![p] = RolledBack]
    /\ pc' = [pc EXCEPT ![p] = "done"]
    /\ resp' = [resp EXCEPT ![p] =
                  [kind |-> "loan", loan |-> loc[p].fetched, ok |-> FALSE]]
    /\ ghost' = [ghost EXCEPT ![p].failedAt = pc[p]]
    /\ UNCHANGED <<clock, books, nextBookId, loans, nextLoanId, req, loc,
                   lastStock, reqs>>
    /\ UNCHANGED deskVars

\* ------------------------------------------------------------- return_loan
BoolResp(v) == [kind |-> "bool", loan |-> NoLoan, ok |-> v]

\* Handler entry: now = Utc::now(), then pool.begin() (a failed begin
\* answers false).
StartReturnLoan(p, id, beginOk) ==
    LET r == [NoReq EXCEPT !.kind = "return_loan", !.id = id]
        others == {q \in Procs \ {p} : InFlight(q)}
    IN  /\ pc[p] = "idle"
        /\ reqs < MaxReqs
        /\ beginOk \/ fails < MaxFails
        /\ reqs' = reqs + 1
        /\ req' = [req EXCEPT ![p] = r]
        /\ loc' = [loc EXCEPT ![p] = [NoLoc EXCEPT !.now = NowDateTime]]
        /\ ghost' = [q \in Procs |->
                        IF q = p
                        THEN [NoGhost EXCEPT !.txBegun = TRUE,
                                             !.failedAt =
                                                IF beginOk THEN "none" ELSE "begin",
                                             !.raced = others]
                        ELSE IF q \in others /\ beginOk
                        THEN [ghost[q] EXCEPT !.raced = @ \cup {p}]
                        ELSE ghost[q]]
        /\ IF beginOk
           THEN /\ pc' = [pc EXCEPT ![p] = "rl_select"]
                /\ tx' = [tx EXCEPT ![p] = [NoTx EXCEPT !.state = "active"]]
                /\ UNCHANGED <<resp, fails>>
           ELSE /\ pc' = [pc EXCEPT ![p] = "done"]
                /\ resp' = [resp EXCEPT ![p] = BoolResp(FALSE)]
                /\ fails' = fails + 1
                /\ UNCHANGED tx
        /\ UNCHANGED <<clock, books, nextBookId, loans, nextLoanId, lastStock>>
        /\ UNCHANGED deskVars

\* An Err arm of steps 1 to 3: roll back, answer false.
RlReject(p) ==
    /\ pc' = [pc EXCEPT ![p] = "done"]
    /\ tx' = [tx EXCEPT ![p] = RolledBack]
    /\ resp' = [resp EXCEPT ![p] = BoolResp(FALSE)]

\* Mutant of RlSelect: a missing row is read as book_id 0 (fetch_optional
\* and a default) and the handler goes on.
RlSelectDefaultBook(p) ==
    LET l == req[p].id
    IN  /\ pc[p] = "rl_select"
        /\ loc' = [loc EXCEPT ![p].book_id =
                     IF loans[l].exists THEN loans[l].book_id ELSE 0]
        /\ pc' = [pc EXCEPT ![p] = "rl_update_loan"]
        /\ UNCHANGED <<clock, books, nextBookId, loans, nextLoanId, req, tx,
                       resp, ghost, lastStock, reqs, fails>>
        /\ UNCHANGED deskVars

\* Step 1: SELECT book_id FROM loans WHERE id = ? (fetch_one).
RlSelect(p) ==
    LET l == req[p].id
    IN  /\ pc[p] = "rl_select"
        /\ IF loans[l].exists
           THEN /\ loc' = [loc EXCEPT ![p].book_id = loans[l].book_id]
                /\ pc' = [pc EXCEPT ![p] = "rl_update_loan"]
                /\ UNCHANGED <<tx, resp>>
           ELSE RlReject(p) /\ UNCHANGED loc
        /\ UNCHANGED <<clock, books, nextBookId, loans, nextLoanId, req, ghost,
                       lastStock, reqs, fails>>
        /\ UNCHANGED deskVars

\* Mutant of RlUpdateLoan: the statement runs on the pool, not on the
\* transaction, and so commits on its own.
RlUpdateLoanAutocommit(p) ==
    LET l == req[p].id
    IN  /\ pc[p] = "rl_update_loan"
        /\ ~LoanLockedByOther(l, p)
        /\ loans' = [loans EXCEPT ![l].returned_at = <<loc[p].now>>]
        /\ pc' = [pc EXCEPT ![p] = "rl_update_book"]
        /\ UNCHANGED <<clock, books, nextBookId, nextLoanId, req, loc, tx,
                       resp, ghost, lastStock, reqs, fails>>
        /\ UNCHANGED deskVars

\* Step 2: UPDATE loans SET returned_at = now WHERE id = ?. Waits while
\* another transaction holds the row.
RlUpdateLoan(p) ==
    LET l == req[p].id
    IN  /\ pc[p] = "rl_update_loan"
        /\ ~LoanLockedByOther(l, p)
        /\ tx' = [tx EXCEPT ![p].loanUpd =
                    IF loans[l].exists
                    THEN <<[id |-> l, returned_at |-> <<loc[p].now>>]>>
                    ELSE <<>>]
        /\ pc' = [pc EXCEPT ![p] = "rl_update_book"]
        /\ UNCHANGED <<clock, books, nextBookId, loans, nextLoanId, req, loc,
                       resp, ghost, lastStock, reqs, fails>>
        /\ UNCHANGED deskVars

\* Mutant of RlUpdateBook: the stock is reset to total_copies.
RlUpdateBookToTotal(p) ==
    LET b == loc[p].book_id
    IN  /\ pc[p] = "rl_update_book"
        /\ ~BookLockedByOther(b, p)
        /\ tx' = [tx EXCEPT ![p].bookUpd =
                    IF b \in BookIds /\ books[b].exists
                    THEN <<[id |-> b, delta |-> books[b].total_copies
                                                - books[b].available_copies]>>
                    ELSE <<>>]
        /\ pc' = [pc EXCEPT ![p] = "rl_commit"]
        /\ UNCHANGED <<clock, books, nextBookId, loans, nextLoanId, req, loc,
                       resp, ghost, lastStock, reqs, fails>>
        /\ UNCHANGED deskVars

\* Step 3: UPDATE books SET available_copies = available_copies + 1.
\* Waits while another transaction holds the row.
RlUpdateBook(p) ==
    LET b == loc[p].book_id
    IN  /\ pc[p] = "rl_update_book"
        /\ ~BookLockedByOther(b, p)
        /\ tx' = [tx EXCEPT ![p].bookUpd =
                    IF b \in BookIds /\ books[b].exists
                    THEN <<[id |-> b, delta |-> 1]>> ELSE <<>>]
        /\ pc' = [pc EXCEPT ![p] = "rl_commit"]
        /\ UNCHANGED <<clock, books, nextBookId, loans, nextLoanId, req, loc,
                       resp, ghost, lastStock, reqs, fails>>
        /\ UNCHANGED deskVars

\* Steps 1, 2 or 3 fail in the store.
RlStmtFail(p) ==
    /\ pc[p] \in {"rl_select", "rl_update_loan", "rl_update_book"}
    /\ fails < MaxFails
    /\ fails' = fails + 1
    /\ RlReject(p)
    /\ ghost' = [ghost EXCEPT ![p].failedAt = pc[p]]
    /\ UNCHANGED <<clock, books, nextBookId, loans, nextLoanId, req, loc,
                   lastStock, reqs>>
    /\ UNCHANGED deskVars

\* tx.commit().await.ok(); Json(true)
RlCommit(p) ==
    /\ pc[p] = "rl_commit"
    /\ loans' = LoansAfter(tx[p])
    /\ books' = BooksAfter(tx[p])
    /\ lastStock' = StockAfter(tx[p], "return", req[p].id)
    /\ tx' = [tx EXCEPT ![p].state = "committed"]
    /\ pc' = [pc EXCEPT ![p] = "done"]
    /\ resp' = [resp EXCEPT ![p] = BoolResp(TRUE)]
    /\ UNCHANGED <<clock, nextBookId, nextLoanId, req, loc, ghost, reqs, fails>>
    /\ UNCHANGED deskVars

\* The commit fails in the store: nothing is persisted, .ok() drops the error.
RlCommitFail(p) ==
    /\ pc[p] = "rl_commit"
    /\ fails < MaxFails
    /\ fails' = fails + 1
    /\ tx' = [tx EXCEPT ![p] = RolledBack]
    /\ pc' = [pc EXCEPT ![p] = "done"]
    /\ resp' = [resp EXCEPT ![p] = BoolResp(TRUE)]
    /\ ghost' = [ghost EXCEPT ![p].failedAt = pc[p]]
    /\ UNCHANGED <<clock, books, nextBookId, loans, nextLoanId, req, loc,
                   lastStock, reqs>>
    /\ UNCHANGED deskVars

\* ------------------------------------------------------------- the server
\* The response is delivered; the handler task ends and a later request
\* may be served.
Finish(p) ==
    /\ pc[p] = "done"
    /\ pc' = [pc EXCEPT ![p] = "idle"]
    /\ req' = [req EXCEPT ![p] = NoReq]
    /\ loc' = [loc EXCEPT ![p] = NoLoc]
    /\ tx' = [tx EXCEPT ![p] = NoTx]
    /\ resp' = [resp EXCEPT ![p] = NoResp]
    /\ ghost' = [q \in Procs |->
                    IF q = p THEN NoGhost
                    ELSE [ghost[q] EXCEPT !.raced = @ \ {p}]]
    /\ UNCHANGED <<clock, books, nextBookId, loans, nextLoanId, lastStock,
                   reqs, fails>>
    /\ UNCHANGED deskVars

Next ==
    \/ Tick
    \/ \E t \in 0..MaxTotal : nextBookId <= MaxLent /\ CreateBook(t)
    \/ \E p \in Procs, b \in 1..MaxLent, m \in MemberIds, s \in DueInputs,
          ok \in BOOLEAN : StartCreateLoan(p, b, m, s, ok)
    \/ \E p \in Procs : ClSelect(p)
    \/ \E p \in Procs : ClSelectFail(p)
    \/ \E p \in Procs : ClInsert(p)
    \/ \E p \in Procs : ClUpdate(p)
    \/ \E p \in Procs : ClFetch(p)
    \/ \E p \in Procs : ClPanic(p)
    \/ \E p \in Procs : ClCommit(p)
    \/ \E p \in Procs : ClCommitFail(p)
    \/ \E p \in Procs, l \in LoanIds, ok \in BOOLEAN : StartReturnLoan(p, l, ok)
    \/ \E p \in Procs : RlSelect(p)
    \/ \E p \in Procs : RlUpdateLoan(p)
    \/ \E p \in Procs : RlUpdateBook(p)
    \/ \E p \in Procs : RlStmtFail(p)
    \/ \E p \in Procs : RlCommit(p)
    \/ \E p \in Procs : RlCommitFail(p)
    \/ \E p \in Procs : Finish(p)

Spec == Init /\ [][Next]_vars

\* ------------------------------------------------------------- search
\* Text is a sequence of characters over a small alphabet with both cases.
\* char::to_lowercase on that alphabet.
Lower(c) == CASE c = "A" -> "a" [] c = "B" -> "b" [] OTHER -> c

\* Mutant of ToLowercase: the text is left as it is (a case-sensitive match).
ToLowercaseKeepCase(s) == s

\* str::to_lowercase
ToLowercase(s) == [i \in 1..Len(s) |-> Lower(s[i])]

\* str::contains(&needle): needle occurs in hay as a contiguous run.
Contains(hay, needle) ==
    \E o \in 0..Len(hay) :
        /\ o + Len(needle) <= Len(hay)
        /\ \A k \in 1..Len(needle) : hay[o + k] = needle[k]

\* SearchMode::from_str: <<mode>> for Some(mode), <<>> for None.
FromStr(s) ==
    CASE s = "title" -> <<"Title">>
      [] s = "author" -> <<"Author">>
      [] s = "category" -> <<"Category">>
      [] OTHER -> <<>>

\* The field of a book the mode selects.
FieldOf(book, mode) ==
    CASE mode = "Title" -> book.title
      [] mode = "Author" -> book.author
      [] mode = "Category" -> book.category

\* search_books: the books whose selected field, lowercased, contains the
\* lowercased query; filter keeps the order of the slice.
SearchBooks(bookSeq, mode, query) ==
    LET q == ToLowercase(query)
        Keep(book) == Contains(ToLowercase(FieldOf(book, mode)), q)
    IN  SelectSeq(bookSeq, Keep)

\* Mutant of ChunkSize: the division rounds down (at least 1).
ChunkSizeRoundedDown(len, num_cores) ==
    IF len \div num_cores = 0 THEN 1 ELSE len \div num_cores

\* (len + num_cores - 1) / num_cores
ChunkSize(len, num_cores) == (len + num_cores - 1) \div num_cores

\* slice::chunks(n): consecutive runs of n elements, the last one shorter
\* when n does not divide the length.
RECURSIVE Chunks(_, _)
Chunks(s, n) ==
    IF Len(s) = 0 THEN <<>>
    ELSE IF Len(s) <= n THEN <<s>>
    ELSE <<SubSeq(s, 1, n)>> \o Chunks(SubSeq(s, n + 1, Len(s)), n)

\* The text columns of the rows a snapshot is drawn from.
Text1 == [title |-> <<"A", "b">>, author |-> <<"b">>, category |-> <<"a">>]
Text2 == [title |-> <<"b", "a">>, author |-> <<"A">>, category |-> <<>>]
Text3 == [title |-> <<"B">>, author |-> <<"a", "B">>, category |-> <<"b", "b">>]
TextPool == {Text1, Text2, Text3}

\* What fetch_all can answer: up to MaxSnap rows, ids ascending.
Snapshots ==
    {[i \in 1..Len(f) |-> [id |-> i, title |-> f[i].title,
                            author |-> f[i].author, category |-> f[i].category]] :
        f \in UNION {[1..n -> TextPool] : n \in 0..MaxSnap}}

\* The ?mode= parameter: absent, or a string.
ModeParams == {<<>>, <<"title">>, <<"author">>, <<"category">>, <<"isbn">>}

\* The ?q= parameter.
Queries == {<<>>, <<"a">>, <<"A", "B">>, <<"c">>}

\* Handler entry up to the end of the spawn loop: load the snapshot
\* (loadOk: the SELECT succeeded, rows is its answer), settle the mode,
\* return at once on an empty snapshot, else cut it into chunks and spawn
\* one task per chunk.
SearchStart(rows, loadOk, param, q, cores) ==
    LET books_snapshot == IF loadOk THEN rows ELSE <<>>
        parsed == IF param = <<>> THEN <<>> ELSE FromStr(param[1])
        mode == IF parsed = <<>> THEN "Title" ELSE parsed[1]
        num_cores == IF cores >= 1 THEN cores ELSE 1
        len == Len(books_snapshot)
        chunk_size == ChunkSize(len, num_cores)
        chunks == Chunks(books_snapshot, chunk_size)
        started == [NoSearch EXCEPT !.snapshot = books_snapshot,
                                    !.param = param, !.mode = mode,
                                    !.query = q, !.num_cores = num_cores]
    IN  /\ search.pc = "idle"
        /\ search' =
              IF len = 0
              THEN [started EXCEPT !.pc = "done"]
              ELSE [started EXCEPT
                      !.pc = "await",
                      !.chunk_size = chunk_size,
                      !.tasks = [i \in 1..Len(chunks) |->
                                   [chunk |-> chunks[i], state |-> "running",
                                    out |-> <<>>]]]
        /\ UNCHANGED <<clock, books, nextBookId, loans, nextLoanId, pc, req,
                       loc, tx, resp, ghost, lastStock, reqs, fails, members,
                       out>>

\* A spawned task runs search_books on its chunk and completes.
TaskRun(i) ==
    /\ search.pc = "await"
    /\ i \in 1..Len(search.tasks)
    /\ search.tasks[i].state = "running"
    /\ search' = [search EXCEPT
                    !.tasks[i].state = "ok",
                    !.tasks[i].out = SearchBooks(search.tasks[i].chunk,
                                                 search.mode, search.query),
                    !.order = Append(@, i)]
    /\ UNCHANGED <<clock, books, nextBookId, loans, nextLoanId, pc, req, loc,
                   tx, resp, ghost, lastStock, reqs, fails, members, out>>

\* A spawned task panics or is cancelled: its JoinHandle yields Err.
TaskFail(i) ==
    /\ search.pc = "await"
    /\ i \in 1..Len(search.tasks)
    /\ search.tasks[i].state = "running"
    /\ search' = [search EXCEPT !.tasks[i].state = "failed",
                                !.order = Append(@, i)]
    /\ UNCHANGED <<clock, books, nextBookId, loans, nextLoanId, pc, req, loc,
                   tx, resp, ghost, lastStock, reqs, fails, members, out>>

\* Mutant of SearchAwait: the handler takes the tasks as they complete
\* (results in completion order).
SearchAwaitAny ==
    /\ search.pc = "await"
    /\ search.next <= Len(search.tasks)
    /\ Len(search.order) >= search.next
    /\ LET t == search.tasks[search.order[search.next]]
       IN  search' = IF t.state = "ok"
                     THEN [search EXCEPT !.results = @ \o t.out,
                                         !.next = @ + 1]
                     ELSE [search EXCEPT !.next = @ + 1]
    /\ UNCHANGED <<clock, books, nextBookId, loans, nextLoanId, pc, req, loc,
                   tx, resp, ghost, lastStock, reqs, fails, members, out>>

\* for task in tasks { match task.await .. }: the handler awaits the tasks
\* in spawn order; Ok appends the partial result, Err is logged and skipped.
SearchAwait ==
    /\ search.pc = "await"
    /\ search.next <= Len(search.tasks)
    /\ search.tasks[search.next].state # "running"
    /\ LET t == search.tasks[search.next]
       IN  search' = IF t.state = "ok"
                     THEN [search EXCEPT !.results = @ \o t.out,
                                         !.next = @ + 1]
                     ELSE [search EXCEPT !.next = @ + 1]
    /\ UNCHANGED <<clock, books, nextBookId, loans, nextLoanId, pc, req, loc,
                   tx, resp, ghost, lastStock, reqs, fails, members, out>>

\* Mutant of SearchReturn: a failed task fails the whole search, which
\* then answers nothing.
SearchReturnAllOrNothing ==
    /\ search.pc = "await"
    /\ search.next > Len(search.tasks)
    /\ search' = [search EXCEPT
                    !.pc = "done",
                    !.results = IF \E i \in 1..Len(search.tasks) :
                                      search.tasks[i].state = "failed"
                                THEN <<>> ELSE @]
    /\ UNCHANGED <<clock, books, nextBookId, loans, nextLoanId, pc, req, loc,
                   tx, resp, ghost, lastStock, reqs, fails, members, out>>

\* Json(results)
SearchReturn ==
    /\ search.pc = "await"
    /\ search.next > Len(search.tasks)
    /\ search' = [search EXCEPT !.pc = "done"]
    /\ UNCHANGED <<clock, books, nextBookId, loans, nextLoanId, pc, req, loc,
                   tx, resp, ghost, lastStock, reqs, fails, members, out>>

\* The response is delivered; a later search may be served.
SearchFinish ==
    /\ search.pc = "done"
    /\ search' = NoSearch
    /\ UNCHANGED <<clock, books, nextBookId, loans, nextLoanId, pc, req, loc,
                   tx, resp, ghost, lastStock, reqs, fails, members, out>>

\* The search handler alone, its snapshot an input.
NextSearch ==
    \/ /\ search.pc = "idle"
       /\ \E rows \in Snapshots, loadOk \in BOOLEAN, param \in ModeParams,
             q \in Queries, cores \in 1..MaxCores :
             SearchStart(rows, loadOk, param, q, cores)
    \/ \E i \in 1..MaxSnap : TaskRun(i)
    \/ \E i \in 1..MaxSnap : TaskFail(i)
    \/ SearchAwait
    \/ SearchReturn
    \/ SearchFinish

SpecSearch == Init /\ [][NextSearch]_vars

\* ------------------------------------------------------------- the other handlers
\* Each is one autocommitted statement on the pool (stmtOk: it succeeded).
\* The rows SELECT .. FROM books answers: the committed rows, ids ascending.
RECURSIVE BookRows(_)
BookRows(n) ==
    IF n = 0 THEN <<>>
    ELSE BookRows(n - 1) \o
         (IF books[n].exists
          THEN <<[id |-> n, total_copies |-> books[n].total_copies,
                  available_copies |-> books[n].available_copies]>>
          ELSE <<>>)

\* The rows SELECT .. FROM loans answers.
RECURSIVE LoanRows(_)
LoanRows(n) ==
    IF n = 0 THEN <<>>
    ELSE LoanRows(n - 1) \o
         (IF loans[n].exists
          THEN <<[id |-> n, book_id |-> loans[n].book_id,
                  member_id |-> loans[n].member_id, due_at |-> loans[n].due_at,
                  returned_at |-> loans[n].returned_at]>>
          ELSE <<>>)

\* The rows SELECT .. FROM members answers.
RECURSIVE MemberRows(_)
MemberRows(n) ==
    IF n = 0 THEN <<>>
    ELSE MemberRows(n - 1) \o (IF n \in members.rows THEN <<[id |-> n]>> ELSE <<>>)

\* A single-statement handler is accepted; a failing statement is one of
\* the run's injected failures.
Accept(stmtOk) ==
    /\ reqs < MaxReqs
    /\ stmtOk \/ fails < MaxFails
    /\ reqs' = reqs + 1
    /\ fails' = IF stmtOk THEN fails ELSE fails + 1

\* list_books: Ok(books) => Json(books), Err => Json(Vec::new()).
ListBooks(stmtOk) ==
    /\ Accept(stmtOk)
    /\ out' = [NoOut EXCEPT !.op = "list_books", !.ok = stmtOk,
                            !.rows = IF stmtOk THEN BookRows(MaxBooks) ELSE <<>>]
    /\ UNCHANGED <<clock, books, nextBookId, loans, nextLoanId, pc, req, loc,
                   tx, resp, ghost, lastStock, search, members>>

\* delete_book: DELETE FROM books WHERE id = ?, whatever loans reference
\* the book; answers rows_affected > 0, false on Err. The statement waits
\* while a transaction holds the row.
DeleteBook(id, stmtOk) ==
    /\ Accept(stmtOk)
    /\ ~BookLockedByOther(id, 0)
    /\ books' = IF stmtOk THEN [books EXCEPT ![id] = NoBook] ELSE books
    /\ out' = [NoOut EXCEPT !.op = "delete_book", !.id = id,
                            !.ok = stmtOk /\ books[id].exists]
    /\ UNCHANGED <<clock, nextBookId, loans, nextLoanId, pc, req, loc, tx,
                   resp, ghost, lastStock, search, members>>

\* list_members
ListMembers(stmtOk) ==
    /\ Accept(stmtOk)
    /\ out' = [NoOut EXCEPT !.op = "list_members", !.ok = stmtOk,
                            !.rows = IF stmtOk THEN MemberRows(MaxMembers)
                                     ELSE <<>>]
    /\ UNCHANGED <<clock, books, nextBookId, loans, nextLoanId, pc, req, loc,
                   tx, resp, ghost, lastStock, search, members>>

\* create_member: INSERT INTO members, then the new row read back (the
\* answer carries new_id whether or not the read succeeds); id -1 on Err.
CreateMember(stmtOk) ==
    /\ Accept(stmtOk)
    /\ members.nextId <= MaxMembers
    /\ members' = IF stmtOk
                  THEN [rows |-> members.rows \cup {members.nextId},
                        nextId |-> members.nextId + 1]
                  ELSE members
    /\ out' = [NoOut EXCEPT !.op = "create_member", !.ok = stmtOk,
                            !.id = IF stmtOk THEN members.nextId ELSE -1]
    /\ UNCHANGED <<clock, books, nextBookId, loans, nextLoanId, pc, req, loc,
                   tx, resp, ghost, lastStock, search>>

\* delete_member: DELETE FROM members WHERE id = ?
DeleteMember(id, stmtOk) ==
    /\ Accept(stmtOk)
    /\ members' = IF stmtOk THEN [members EXCEPT !.rows = @ \ {id}] ELSE members
    /\ out' = [NoOut EXCEPT !.op = "delete_member", !.id = id,
                            !.ok = stmtOk /\ id \in members.rows]
    /\ UNCHANGED <<clock, books, nextBookId, loans, nextLoanId, pc, req, loc,
                   tx, resp, ghost, lastStock, search>>

\* list_loans
ListLoans(stmtOk) ==
    /\ Accept(stmtOk)
    /\ out' = [NoOut EXCEPT !.op = "list_loans", !.ok = stmtOk,
                            !.rows = IF stmtOk THEN LoanRows(MaxReqs) ELSE <<>>]
    /\ UNCHANGED <<clock, books, nextBookId, loans, nextLoanId, pc, req, loc,
                   tx, resp, ghost, lastStock, search, members>>

\* The snapshot a search loads from the books table. The table's text
\* columns are not carried in books: a book's text goes by its id.
TextOfBook(id) == IF id = 1 THEN Text1 ELSE Text2
ShelfRows ==
    LET rows == BookRows(MaxBooks)
    IN  [i \in 1..Len(rows) |->
            [id |-> rows[i].id, title |-> TextOfBook(rows[i].id).title,
             author |-> TextOfBook(rows[i].id).author,
             category |-> TextOfBook(rows[i].id).category]]

\* Every handler of the server, over a catalogue of up to MaxBooks books.
\* No store failure is injected here; borrows are due today.
NextDesk ==
    \/ \E t \in 1..MaxTotal : CreateBook(t)
    \/ \E b \in BookIds : DeleteBook(b, TRUE)
    \/ ListBooks(TRUE)
    \/ ListMembers(TRUE)
    \/ CreateMember(TRUE)
    \/ \E m \in 1..MaxMembers : DeleteMember(m, TRUE)
    \/ ListLoans(TRUE)
    \/ \E ok \in BOOLEAN : SearchStart(ShelfRows, ok, <<>>, <<"a">>, 1)
    \/ TaskRun(1)
    \/ SearchAwait
    \/ SearchReturn
    \/ SearchFinish
    \/ \E p \in Procs, b \in BookIds : StartCreateLoan(p, b, 1, DueToday, TRUE)
    \/ \E p \in Procs : ClSelect(p)
    \/ \E p \in Procs : ClInsert(p)
    \/ \E p \in Procs : ClUpdate(p)
    \/ \E p \in Procs : ClFetch(p)
    \/ \E p \in Procs : ClCommit(p)
    \/ \E p \in Procs, l \in LoanIds : StartReturnLoan(p, l, TRUE)
    \/ \E p \in Procs : RlSelect(p)
    \/ \E p \in Procs : RlUpdateLoan(p)
    \/ \E p \in Procs : RlUpdateBook(p)
    \/ \E p \in Procs : RlCommit(p)
    \/ \E p \in Procs : Finish(p)

SpecDesk == Init /\ [][NextDesk]_vars

\* ------------------------------------------------------------- properties
Succeeded(p) ==
    /\ resp[p].kind = "loan"
    /\ resp[p].loan.id # -1
    /\ tx[p].state = "committed"

OutOfStock(p) ==
    /\ resp[p].kind = "loan"
    /\ resp[p].loan.id = -1
    /\ tx[p].state = "rolledback"

\* Two borrows of book b that ran concurrently, both starting when the
\* book had one available copy, neither hit by a store failure.
RacedBorrows(p, q) ==
    /\ p # q
    /\ pc[p] = "done" /\ pc[q] = "done"
    /\ req[p].kind = "create_loan" /\ req[q].kind = "create_loan"
    /\ req[p].book_id = req[q].book_id
    /\ books[req[p].book_id].exists
    /\ ghost[p].txBegun /\ ghost[q].txBegun
    /\ ghost[p].failedAt = "none" /\ ghost[q].failedAt = "none"
    /\ q \in ghost[p].raced
    /\ ghost[p].startAvail = 1 /\ ghost[q].startAvail = 1

\* C1: of two concurrent borrows of a book with one available copy,
\* exactly one succeeds and the other is rejected as out of stock.
C1_ExactlyOneBorrowWins ==
    \A p, q \in Procs :
        RacedBorrows(p, q) =>
            \/ Succeeded(p) /\ OutOfStock(q)
            \/ Succeeded(q) /\ OutOfStock(p)

\* C2: every book keeps 0 <= available_copies <= total_copies.
C2_StockWithinBounds ==
    \A b \in BookIds :
        books[b].exists =>
            /\ 0 <= books[b].available_copies
            /\ books[b].available_copies <= books[b].total_copies

OpenLoans(b) ==
    {l \in LoanIds : /\ loans[l].exists
                     /\ loans[l].book_id = b
                     /\ loans[l].returned_at = <<>>}

\* C3: a book never has more open loans than total_copies.
C3_OpenLoansWithinTotal ==
    \A b \in BookIds :
        books[b].exists => Cardinality(OpenLoans(b)) <= books[b].total_copies

RlPcs == {"rl_select", "rl_update_loan", "rl_update_book", "rl_commit"}

\* C4: a return_loan that completes on a loan whose returned_at is already
\* set leaves the book's available_copies as it was.
C4_SecondReturnKeepsStock ==
    [][\A p \in Procs :
          (/\ pc[p] \in RlPcs
           /\ pc'[p] = "done"
           /\ loans[req[p].id].exists
           /\ loans[req[p].id].returned_at # <<>>)
          => books'[loans[req[p].id].book_id].available_copies
               = books[loans[req[p].id].book_id].available_copies]_vars

\* C5: a borrow that reads available_copies <= 0 is rejected with id -1,
\* its transaction rolled back, books and loans left as they were.
C5_OutOfStockRejected ==
    [][\A p \in Procs :
          (/\ pc[p] = "cl_select"
           /\ pc'[p] # "cl_select"
           /\ books[req[p].book_id].exists
           /\ books[req[p].book_id].available_copies <= 0)
          => /\ pc'[p] = "done"
             /\ resp'[p].kind = "loan"
             /\ resp'[p].loan.id = -1
             /\ tx'[p] = RolledBack
             /\ books' = books
             /\ loans' = loans]_vars

\* Witness of C5: a book with total 2 and nothing available, and a borrow
\* of it that read the stock and was rejected.
C5_Witness ==
    \E p \in Procs :
        /\ pc[p] = "done"
        /\ req[p].kind = "create_loan"
        /\ ghost[p].txBegun
        /\ ghost[p].failedAt = "none"
        /\ books[req[p].book_id].exists
        /\ books[req[p].book_id].total_copies = 2
        /\ books[req[p].book_id].available_copies = 0
        /\ loc[p].available = 0
        /\ OutOfStock(p)

\* A committed store change that is a book insert.
IsBookInsert ==
    /\ loans' = loans
    /\ \E b \in BookIds :
          /\ ~books[b].exists
          /\ books'[b].exists
          /\ \A c \in BookIds \ {b} : books'[c] = books[c]

\* A committed store change that is one new open loan together with the
\* decrement of its book.
IsBorrowEffect ==
    \E l \in LoanIds :
        /\ ~loans[l].exists
        /\ loans'[l].exists
        /\ loans'[l].returned_at = <<>>
        /\ \A k \in LoanIds \ {l} : loans'[k] = loans[k]
        /\ loans'[l].book_id \in BookIds
        /\ books' = [books EXCEPT ![loans'[l].book_id].available_copies = @ - 1]

\* A committed store change that is returned_at set on one loan together
\* with the increment of its book.
IsReturnEffect ==
    \E l \in LoanIds :
        /\ loans[l].exists
        /\ loans'[l].returned_at # <<>>
        /\ loans'[l] = [loans[l] EXCEPT !.returned_at = loans'[l].returned_at]
        /\ \A k \in LoanIds \ {l} : loans'[k] = loans[k]
        /\ books' = [books EXCEPT ![loans[l].book_id].available_copies = @ + 1]

C7_SuccessOnlyIfCommitted ==
    \A p \in Procs :
        pc[p] = "done" =>
            /\ (resp[p].kind = "bool" /\ resp[p].ok) => tx[p].state = "committed"
            /\ (resp[p].kind = "loan" /\ resp[p].loan.id # -1)
                    => tx[p].state = "committed"

\* C8: when the last two committed stock changes of a book are a borrow
\* that found at least one copy and the return of the loan it created,
\* available_copies is what it was before the borrow.
C8_BorrowThenReturnRestores ==
    \A b \in BookIds :
        (/\ books[b].exists
         /\ lastStock[b].op = "return"
         /\ lastStock[b].prevOp = "borrow"
         /\ lastStock[b].prevLoan = lastStock[b].loan
         /\ lastStock[b].prevBefore >= 1)
        => books[b].available_copies = lastStock[b].prevBefore

\* Witness of C8: a borrow from a stock of 2 and the return of its loan
\* were the last two committed stock changes of a book.
C8_Witness ==
    \E b \in BookIds :
        /\ books[b].exists
        /\ lastStock[b].op = "return"
        /\ lastStock[b].prevOp = "borrow"
        /\ lastStock[b].prevLoan = lastStock[b].loan
        /\ lastStock[b].prevBefore = 2

\* The due_date inputs that name a calendar day, and the day each names,
\* counted from the day the run starts on.
WellFormedDue == {DueYesterday, DueToday, DueTomorrow}
DueDayNumber(s) ==
    CASE s = DueYesterday -> -1 [] s = DueToday -> 0 [] s = DueTomorrow -> 1

\* C9: a borrow whose due_date does not parse or lies before today is
\* rejected at entry with id -1, with no transaction begun and the store
\* untouched; a due_date of today or later goes on to begin a transaction.
C9_DueDateValidation ==
    [][\A p \in Procs :
          (pc[p] = "idle" /\ pc'[p] # "idle" /\ req'[p].kind = "create_loan")
          => IF \/ req'[p].due_date \notin WellFormedDue
                \/ DueDayNumber(req'[p].due_date) < clock \div TicksPerDay
             THEN /\ pc'[p] = "done"
                  /\ resp'[p].kind = "loan"
                  /\ resp'[p].loan.id = -1
                  /\ tx'[p].state = "none"
                  /\ ~ghost'[p].txBegun
                  /\ fails' = fails
                  /\ books' = books
                  /\ loans' = loans
                  /\ nextLoanId' = nextLoanId
             ELSE /\ ghost'[p].txBegun
                  /\ \/ pc'[p] = "cl_select" /\ tx'[p].state = "active"
                     \/ fails' = fails + 1 /\ resp'[p].kind = "panic"]_vars

\* Witness of C9: on the second day, a borrow due the day before stands
\* rejected while a borrow due that very day has begun its transaction.
C9_Witness ==
    \E p, q \in Procs :
        /\ clock \div TicksPerDay = 1
        /\ pc[p] = "done"
        /\ req[p].kind = "create_loan"
        /\ req[p].due_date = DueToday
        /\ resp[p].kind = "loan"
        /\ resp[p].loan.id = -1
        /\ tx[p].state = "none"
        /\ pc[q] = "cl_select"
        /\ req[q].due_date = DueTomorrow
        /\ tx[q].state = "active"

\* C10: return_loan on a loan id with no row answers false, rolls back,
\* and leaves books and loans as they were.
C10_ReturnOfMissingLoan ==
    [][\A p \in Procs :
          (/\ pc[p] = "rl_select"
           /\ pc'[p] # "rl_select"
           /\ ~loans[req[p].id].exists)
          => /\ pc'[p] = "done"
             /\ resp'[p] = BoolResp(FALSE)
             /\ tx'[p] = RolledBack
             /\ books' = books
             /\ loans' = loans]_vars

\* Witness of C10: a return of a loan id that has no row, not hit by any
\* store failure, answered false with its transaction rolled back.
C10_Witness ==
    \E p \in Procs :
        /\ pc[p] = "done"
        /\ req[p].kind = "return_loan"
        /\ ghost[p].failedAt = "none"
        /\ ~loans[req[p].id].exists
        /\ resp[p] = BoolResp(FALSE)
        /\ tx[p] = RolledBack

\* C11: a loan's returned_at, once set, is never changed by a later
\* operation, and a borrow that is rejected (id -1) persists no loan row.
C11_ReturnedAtSetOnce ==
    [][/\ \A l \in LoanIds :
             (loans[l].exists /\ loans[l].returned_at # <<>>)
             => loans'[l].returned_at = loans[l].returned_at
       /\ \A p \in Procs :
             (/\ req[p].kind = "create_loan"
              /\ pc[p] # "done"
              /\ pc'[p] = "done"
              /\ resp'[p].kind = "loan"
              /\ resp'[p].loan.id = -1)
             => loans' = loans]_vars

\* C17: no stock update is lost. In every committed state a book's
\* available_copies is the total it was created with, minus the committed
\* borrows of the book, plus the committed returns of its loans.
C17_NoLostUpdate ==
    \A b \in BookIds :
        books[b].exists
        => books[b].available_copies
             = books[b].total_copies - lastStock[b].borrows + lastStock[b].returns

\* Witness of C17: two borrows of one book ran concurrently and both
\* committed, and a return of one of its loans has committed as well.
C17_Witness ==
    \E p, q \in Procs :
        /\ p # q
        /\ pc[p] = "done" /\ pc[q] = "done"
        /\ req[p].kind = "create_loan" /\ req[q].kind = "return_loan"
        /\ tx[p].state = "committed" /\ tx[q].state = "committed"
        /\ q \in ghost[p].raced
        /\ loans[req[q].id].exists
        /\ loans[req[q].id].book_id = req[p].book_id
        /\ lastStock[req[p].book_id].borrows = 2
        /\ lastStock[req[p].book_id].returns = 1

\* The instant a due_date input names when it names a calendar day.
DueInstant(s) ==
    CASE s = DueYesterday -> [date |-> [y |-> 2025, m |-> 12, d |-> 30], tod |-> 0]
      [] s = DueToday -> [date |-> [y |-> 2025, m |-> 12, d |-> 31], tod |-> 0]
      [] s = DueTomorrow -> [date |-> [y |-> 2026, m |-> 1, d |-> 1], tod |-> 0]

\* C18: a valid borrow of an existing book read with available_copies >= 1
\* goes on to its insert and, with no store failure, commits exactly one
\* new loan row carrying the requested book_id and member_id, due_at at
\* midnight of the supplied date and no returned_at, and lowers the book's
\* available_copies by exactly 1; a borrow of a book that does not exist is
\* rejected with id -1 and changes nothing in the store.
C18_BorrowCommitsOneLoan ==
    [][\A p \in Procs :
          /\ (/\ pc[p] = "cl_select"
              /\ pc'[p] # "cl_select"
              /\ fails' = fails
              /\ books[req[p].book_id].exists
              /\ books[req[p].book_id].available_copies >= 1)
             => pc'[p] = "cl_insert"
          /\ (/\ pc[p] = "cl_commit"
              /\ pc'[p] = "done"
              /\ fails' = fails
              /\ books[req[p].book_id].exists)
             => /\ tx'[p].state = "committed"
                /\ \E l \in LoanIds :
                      /\ ~loans[l].exists
                      /\ loans'[l] = [exists |-> TRUE,
                                      book_id |-> req[p].book_id,
                                      member_id |-> req[p].member_id,
                                      due_at |-> DueInstant(req[p].due_date),
                                      returned_at |-> <<>>]
                      /\ \A k \in LoanIds \ {l} : loans'[k] = loans[k]
                      /\ resp'[p].kind = "loan"
                      /\ resp'[p].loan.id = l
                /\ books' = [books EXCEPT
                               ![req[p].book_id].available_copies = @ - 1]
          /\ (/\ pc[p] = "cl_select"
              /\ pc'[p] # "cl_select"
              /\ ~books[req[p].book_id].exists)
             => /\ pc'[p] = "done"
                /\ resp'[p].kind = "loan"
                /\ resp'[p].loan.id = -1
                /\ tx'[p] = RolledBack
                /\ books' = books
                /\ loans' = loans]_vars

\* Witness of C18: a borrow due tomorrow that read a stock of 2 stands
\* committed, not hit by any store failure, with its loan row in the store.
C18_Witness ==
    \E p \in Procs :
        /\ pc[p] = "done"
        /\ req[p].kind = "create_loan"
        /\ req[p].due_date = DueTomorrow
        /\ ghost[p].failedAt = "none"
        /\ loc[p].available = 2
        /\ tx[p].state = "committed"
        /\ resp[p].kind = "loan"
        /\ resp[p].loan.id \in LoanIds
        /\ loans[resp[p].loan.id].exists
        /\ books[req[p].book_id].available_copies = 1

\* Witness of C18's rejection: a borrow of a book id with no row, not hit
\* by any store failure, answered id -1 with its transaction rolled back.
C18_WitnessNoBook ==
    \E p \in Procs :
        /\ pc[p] = "done"
        /\ req[p].kind = "create_loan"
        /\ ghost[p].txBegun
        /\ ghost[p].failedAt = "none"
        /\ ~books[req[p].book_id].exists
        /\ resp[p].kind = "loan"
        /\ resp[p].loan.id = -1
        /\ tx[p] = RolledBack

\* C20: for every book (created with available_copies = total_copies, and
\* not deleted), available_copies plus the number of its open loans equals
\* total_copies in every committed state.
C20_StockPlusOpenLoansIsTotal ==
    \A b \in BookIds :
        books[b].exists
        => books[b].available_copies + Cardinality(OpenLoans(b))
             = books[b].total_copies

\* No task of the search in hand has failed.
NoTaskFailed == \A i \in 1..Len(search.tasks) : search.tasks[i].state # "failed"

\* C12: with no failed task, the parallel search answers search_books of
\* the whole snapshot, whatever the number of cores and whatever the order
\* the tasks completed in.
C12_ParallelEqualsSequential ==
    (search.pc = "done" /\ NoTaskFailed)
    => search.results = SearchBooks(search.snapshot, search.mode, search.query)

\* Witness of C12: a search over three tasks, the last completing first and
\* none failing, answered some but not all of the snapshot, with books of
\* more than one chunk in the answer.
C12_Witness ==
    /\ search.pc = "done"
    /\ NoTaskFailed
    /\ Len(search.tasks) = 3
    /\ search.order = <<3, 2, 1>>
    /\ Len(search.results) >= 2
    /\ Len(search.results) < Len(search.snapshot)
    /\ Len(search.tasks[1].out) >= 1
    /\ Len(search.tasks[3].out) >= 1

\* Two characters that are the same letter, whatever their case.
SameLetter(c, d) == c = d \/ {c, d} = {"a", "A"} \/ {c, d} = {"b", "B"}

\* q occurs in text as a contiguous run, letter case ignored.
OccursIgnoringCase(text, q) ==
    \E o \in 0..Len(text) :
        /\ o + Len(q) <= Len(text)
        /\ \A k \in 1..Len(q) : SameLetter(text[o + k], q[k])

\* The positions of input whose mode-selected field holds q.
Matching(input, mode, q) ==
    {i \in 1..Len(input) :
        OccursIgnoringCase(IF mode = "Title" THEN input[i].title
                           ELSE IF mode = "Author" THEN input[i].author
                           ELSE input[i].category, q)}

\* output is input restricted to the positions in keep, in input's order.
IsRestriction(output, input, keep) ==
    /\ Len(output) = Cardinality(keep)
    /\ \A i \in keep :
          output[Cardinality({j \in keep : j <= i})] = input[i]

\* C13: search_books answers exactly the books whose mode-selected field
\* contains the query as a substring, letter case ignored, in the order of
\* its input; an empty query answers every book, a query that occurs in no
\* book answers none.
C13_SearchBooksFilters ==
    \A i \in 1..Len(search.tasks) :
        search.tasks[i].state = "ok"
        => LET input == search.tasks[i].chunk
               output == search.tasks[i].out
               keep == Matching(input, search.mode, search.query)
           IN  /\ IsRestriction(output, input, keep)
               /\ search.query = <<>> => output = input
               /\ keep = {} => output = <<>>

\* Witness of C13: search_books ran on four books by title with the query
\* "AB" and answered the first and the third of them.
C13_Witness ==
    /\ Len(search.tasks) = 1
    /\ search.tasks[1].state = "ok"
    /\ Len(search.tasks[1].chunk) = 4
    /\ search.mode = "Title"
    /\ search.query = <<"A", "B">>
    /\ Len(search.tasks[1].out) = 2
    /\ search.tasks[1].out[1].id = 1
    /\ search.tasks[1].out[2].id = 3

\* The i-th chunk of the snapshot in hand, by position.
ChunkAt(i) ==
    LET n == Len(search.snapshot)
        last == IF i * search.chunk_size < n THEN i * search.chunk_size ELSE n
    IN  SubSeq(search.snapshot, (i - 1) * search.chunk_size + 1, last)

\* The partial results of the first n tasks that did not fail, in chunk order.
RECURSIVE SurvivingResults(_)
SurvivingResults(n) ==
    IF n = 0 THEN <<>>
    ELSE SurvivingResults(n - 1) \o
         (IF search.tasks[n].state = "failed" THEN <<>>
          ELSE SearchBooks(ChunkAt(n), search.mode, search.query))

\* C14: whichever tasks fail, the search handler still answers: every task
\* has been awaited, and the answer is the concatenation, in chunk order,
\* of the results of exactly the chunks whose task did not fail.
C14_FailedTasksAreSkipped ==
    search.pc = "done"
    => /\ \A i \in 1..Len(search.tasks) : search.tasks[i].state # "running"
       /\ search.results = SurvivingResults(Len(search.tasks))

\* Witness of C14: of three tasks the second failed, and the answer holds
\* the results of the first and of the third.
C14_Witness ==
    /\ search.pc = "done"
    /\ Len(search.tasks) = 3
    /\ search.tasks[1].state = "ok"
    /\ search.tasks[2].state = "failed"
    /\ search.tasks[3].state = "ok"
    /\ Len(search.tasks[1].out) >= 1
    /\ Len(search.tasks[3].out) >= 1
    /\ search.results = search.tasks[1].out \o search.tasks[3].out

\* ceil(n / w): the least k with k * w >= n.
CeilDiv(n, w) == CHOOSE k \in 0..n : k * w >= n /\ \A j \in 0..n : j * w >= n => k <= j

\* The chunks of the first n tasks, joined end to end.
RECURSIVE JoinedChunks(_)
JoinedChunks(n) ==
    IF n = 0 THEN <<>> ELSE JoinedChunks(n - 1) \o search.tasks[n].chunk

\* C19: a search of an empty snapshot answers nothing and spawns no task;
\* a search of N >= 1 books on W >= 1 cores uses chunk size ceil(N / W) >= 1,
\* spawns at most W tasks, gives each at most ceil(N / W) books, and the
\* chunks are consecutive runs of the snapshot covering every book once.
C19_ChunkPartition ==
    search.pc # "idle"
    => LET n == Len(search.snapshot)
           w == search.num_cores
       IN  /\ w >= 1
           /\ n = 0 => (/\ search.tasks = <<>>
                        /\ search.results = <<>>
                        /\ search.pc = "done")
           /\ n >= 1 => (/\ search.chunk_size = CeilDiv(n, w)
                         /\ search.chunk_size >= 1
                         /\ Len(search.tasks) >= 1
                         /\ Len(search.tasks) <= w
                         /\ \A i \in 1..Len(search.tasks) :
                               /\ Len(search.tasks[i].chunk) >= 1
                               /\ Len(search.tasks[i].chunk) <= search.chunk_size
                         /\ JoinedChunks(Len(search.tasks)) = search.snapshot)

\* Witness of C19: four books on three cores, cut into two chunks of two.
C19_Witness ==
    /\ search.pc = "await"
    /\ Len(search.snapshot) = 4
    /\ search.num_cores = 3
    /\ search.chunk_size = 2
    /\ Len(search.tasks) = 2
    /\ Len(search.tasks[2].chunk) = 2

\* The book a lending request refers to: the book_id of a borrow, the
\* book of the loan a return names.
ReferencedBook(p) ==
    IF req[p].kind = "create_loan" THEN req[p].book_id
    ELSE loans[req[p].id].book_id

\* Handler p commits its borrow or return on this step.
Commits(p) ==
    /\ pc[p] \in {"cl_commit", "rl_commit"}
    /\ pc'[p] = "done"
    /\ tx'[p].state = "committed"

\* C15: the available_copies of an existing book changes only through a
\* borrow or a return, and only for the book that request refers to:
\* search, the list handlers, the member handlers and the creation or
\* deletion of other books leave it as it was.
C15_StockFrame ==
    [][\A b \in BookIds :
          (/\ books[b].exists
           /\ books'[b].exists
           /\ books'[b].available_copies # books[b].available_copies)
          => \E p \in Procs : Commits(p) /\ ReferencedBook(p) = b]_vars

\* Witness of C15: two books stand in the catalogue; a borrow of one has
\* committed and taken a copy off it, the other still has every copy, and
\* a search that loaded both books has answered since.
C15_Witness ==
    \E p \in Procs, c \in BookIds :
        /\ pc[p] = "done"
        /\ req[p].kind = "create_loan"
        /\ tx[p].state = "committed"
        /\ c # req[p].book_id
        /\ books[req[p].book_id].exists
        /\ books[req[p].book_id].available_copies
             = books[req[p].book_id].total_copies - 1
        /\ books[c].exists
        /\ books[c].available_copies = books[c].total_copies
        /\ search.pc = "done"
        /\ Len(search.snapshot) = 2
        /\ out.op = "list_loans"
        /\ Len(out.rows) = 1

\* C16: every open loan references a book that still exists (a book is
\* deleted only when no open loan references it).
C16_OpenLoansReferenceBooks ==
    \A l \in LoanIds :
        (loans[l].exists /\ loans[l].returned_at = <<>>)
        => books[loans[l].book_id].exists

====
